---- MODULE Spec2Model ----
(***************************************************************************)
(* The per-partition control loop of the data node (datanode/              *)
(* partition_raft.go): truncation driven by the cluster-minimum applied    *)
(* index, repair hand-off, asynchronous persistence of the applied index.  *)
(*                                                                         *)
(* One partition (dp) is modelled in full; the other replicas of its       *)
(* replica set appear through the applied index each of them reports.      *)
(* A Go channel is a FIFO queue: its first cap entries are the buffer, the  *)
(* entries behind them belong to senders that are still blocked.           *)
(***************************************************************************)
EXTENDS Integers, Sequences, FiniteSets, TLC

\* ---------------------------------------------------------------- bounds
MaxIndex == 2       \* applied indexes range over 0..MaxIndex
NRemote == 2        \* len(replicaHosts) - 1: the replicas the coordinator polls
MaxChanCap == 2     \* capacities tried for dp.raftC and dp.storeC
MaxRepairs == 3     \* repair requests sent on dp.repairC in one run
NExtents == 2       \* extent ids 1..NExtents
BigIndex == 12      \* a two-digit applied index, for the applied-index file
NHosts == 3         \* data nodes a StreamConn can name
StreamSendMaxRetry == 2   \* the attempt ceiling (100 in the source), scaled down
MaxSends == 2       \* Send calls in one run
MaxPeerId == 3      \* peer ids 1..MaxPeerId; NodeId is the local one
MaxConfChanges == 3 \* configuration changes applied in one run
NCallers == 2       \* goroutines calling Write, Flush and Close of one writer
MaxWrites == 2      \* Write calls in one run, one byte each
WriterBufferLenLimit == 1   \* the buffer length past which Write flushes, scaled down

Nil == 0            \* the absent consensus handle (dp.raftPartition == nil)

VARIABLES
    applyId,          \* dp.applyId
    stopC,            \* a stop signal is pending on dp.stopC
    loopPc,           \* where the control loop goroutine is
    \* truncation
    minAppliedId,     \* dp.minAppliedId
    lastTruncateId,   \* dp.lastTruncateId
    isCoord,          \* strings.Split(dp.replicaHosts[0], ":")[0] == LocalIP
    remoteApplied,    \* applied index of replicaHosts[i], i in 1..NRemote
    truncTimer,       \* truncRaftlogTimer: "armed", "fired" (tick in .C), "done", "stopped"
    gm,               \* frame of getMinAppliedId: i, minAppliedId (local), newMinAppliedId, err, got
    truncates,        \* the indexes passed to raftPartition.Truncate, in order
    \* consensus handle
    raftPartition,    \* dp.raftPartition: Nil or 1 (a handle)
    liveHandles,      \* consensus partitions created and not stopped
    raftC,            \* dp.raftC
    raftCap,          \* cap(dp.raftC)
    \* repair
    repairC,          \* dp.repairC
    nRepairReq,       \* repair requests sent so far
    rp,               \* frame of ApplyErrRepair: extentId, leaderAddr, isLeader, err, ops
    extentStore,      \* dp.extentStore: the state of each extent
    \* persistence of the applied index
    storeC,           \* dp.storeC: entries [idx, by]; by is the dumpFunc sending, else 0
    storeCap,         \* cap(dp.storeC)
    storeTimer,       \* storeAppliedTimer, as truncTimer
    indexes,          \* the loop's indexes slice
    isRunning,        \* the isRunning flag shared by the loop and dumpFunc
    readyChan,        \* tokens in readyChan (capacity 1)
    sendVal,          \* the value of dp.applyId the loop is sending on storeC
    dumps,            \* the dumpFunc goroutines: pc, idx, fd, err
    \* the partition directory
    files,            \* name -> inode (0: no such file)
    inodes,           \* inode -> [data, durable]
    persisted,        \* what the canonical file held when the stores in flight began
    crashed,          \* the node went down
    stored,           \* the canonical file as the last two successful storeApplyIndex left it
    loadErr,          \* what LoadApplyIndex returned: "none" before the call
    \* configuration changes
    peers,            \* dp.config.Peers: the peer ids, in order
    engineApplied,    \* dp.raftPartition.AppliedIndex(): the engine's applied index
    confRet,          \* what the last confAddNode or confRemoveNode returned
    removers,         \* the self-removal goroutines confRemoveNode started: pc, index
    teardowns,        \* the teardown steps taken, with the engine's applied index then
    dirRemoved,       \* os.RemoveAll(dp.Path()) has run
    \* the stream client (StreamConn)
    hosts,            \* sc.hosts
    hostMode,         \* how each data node answers
    currAddr,         \* sc.currAddr: a host, or 0 for the empty address
    sd,               \* frame of Send, sendToPartition and sendToConn
    conns,            \* the connections StreamConnPool.Get handed out
    sendLog,          \* the Send calls that returned
    \* the asynchronous file writer (asyncFileWriter)
    mu,               \* writer.mu: 0 when free, else the goroutine that holds it
    buffer,           \* writer.buffer: the bytes not yet flushed
    fileBytes,        \* the bytes written to writer.file
    fileOpen,         \* writer.file has not been closed
    closeC,           \* writer.closeC has been closed
    closeOnce,        \* writer.closeOnce has run its function
    ticker,           \* the ticker of flushScheduler: "idle", "tick" (a tick in .C), "stopped"
    wt,               \* the goroutines using the writer: op, pc, after, p, flushBytes
    accepted,         \* the bytes handed to Write so far
    closeSeen         \* Close calls that returned, and the bytes accepted when the first did

loopVars == <<applyId, stopC, loopPc>>
truncVars == <<minAppliedId, lastTruncateId, isCoord, remoteApplied, truncTimer, gm, truncates>>
raftVars == <<raftPartition, liveHandles, raftC, raftCap>>
repairVars == <<repairC, nRepairReq, rp, extentStore>>
storeVars == <<storeC, storeCap, storeTimer, indexes, isRunning, readyChan, sendVal, dumps>>
fsVars == <<files, inodes, persisted, crashed, stored>>
confVars == <<peers, engineApplied, confRet, removers, teardowns, dirRemoved>>
streamVars == <<hosts, hostMode, currAddr, sd, conns, sendLog>>
writerVars == <<mu, buffer, fileBytes, fileOpen, closeC, closeOnce, ticker, wt, accepted, closeSeen>>
extVars == <<loadErr, confVars, streamVars, writerVars>>

vars == <<loopVars, truncVars, raftVars, repairVars, storeVars, fsVars, extVars>>

\* ------------------------------------------------------------- helpers
Indexes == 0..MaxIndex

Last(s) == s[Len(s)]

Range(s) == {s[k] : k \in 1..Len(s)}

SetMin(S) == CHOOSE x \in S : \A y \in S : x <= y

SetMax(S) == CHOOSE x \in S : \A y \in S : x >= y

\* The frame of getMinAppliedId before the function is entered.
GmIdle == [i |-> 0, minAppliedId |-> 0, newMinAppliedId |-> 0, err |-> FALSE, got |-> <<>>]

\* The frame of ApplyErrRepair before the function is entered.
RpIdle == [extentId |-> 0, leaderAddr |-> "", isLeader |-> FALSE, err |-> FALSE, ops |-> <<>>]

\* ------------------------------------------------ fields set from outside
\* The consensus apply path advances applyId and queues it for persistence.
Apply ==
    /\ applyId < MaxIndex
    /\ applyId' = applyId + 1
    /\ storeC' = Append(storeC, [idx |-> applyId + 1, by |-> 0])
    /\ UNCHANGED <<stopC, loopPc, truncVars, raftVars, repairVars, fsVars>>
    /\ UNCHANGED <<storeCap, extVars, storeTimer, indexes, isRunning, readyChan, sendVal, dumps>>

\* Another replica of the partition applies an entry.
RemoteApply(r) ==
    /\ remoteApplied[r] < MaxIndex
    /\ remoteApplied' = [remoteApplied EXCEPT ![r] = @ + 1]
    /\ UNCHANGED <<loopVars, raftVars, repairVars, storeVars, extVars, fsVars>>
    /\ UNCHANGED <<minAppliedId, lastTruncateId, isCoord, truncTimer, gm, truncates>>

\* dp.SetMinAppliedId(id)
SetMinAppliedId(id) ==
    /\ minAppliedId' = id
    /\ UNCHANGED <<loopVars, raftVars, repairVars, storeVars, extVars, fsVars>>
    /\ UNCHANGED <<lastTruncateId, isCoord, remoteApplied, truncTimer, gm, truncates>>

\* dp.GetAppliedId() of replica r, as the answer to an OpGetAppliedId packet
GetAppliedId(r) == remoteApplied[r]

\* The stop signal is sent on dp.stopC.
SendStop ==
    /\ ~stopC
    /\ stopC' = TRUE
    /\ UNCHANGED <<applyId, loopPc, truncVars, raftVars, repairVars, storeVars, extVars, fsVars>>

\* ------------------------------------------------------------ the loop
\* The head of the for loop:
\*   if len(indexes) > 0 { if isRunning == false { isRunning = true; readyChan <- struct{}{} } }
LoopTop ==
    /\ loopPc = "top"
    /\ IF Len(indexes) > 0 /\ ~isRunning
          THEN /\ isRunning' = TRUE
               /\ loopPc' = "sendReady"
          ELSE /\ isRunning' = isRunning
               /\ loopPc' = "select"
    /\ UNCHANGED <<applyId, stopC, truncVars, raftVars, repairVars, fsVars>>
    /\ UNCHANGED <<storeC, storeCap, extVars, storeTimer, indexes, readyChan, sendVal, dumps>>

\* A timer that has not expired is stopped by Stop().
StopTimer(t) == IF t = "armed" THEN "stopped" ELSE t

\* case <-stopC: both timers are stopped and the goroutine returns.
LoopStop ==
    /\ loopPc = "select"
    /\ stopC
    /\ loopPc' = "exited"
    /\ truncTimer' = StopTimer(truncTimer)
    /\ storeTimer' = StopTimer(storeTimer)
    /\ UNCHANGED <<applyId, stopC, raftVars, repairVars, fsVars>>
    /\ UNCHANGED <<minAppliedId, lastTruncateId, isCoord, remoteApplied, gm, truncates>>
    /\ UNCHANGED <<storeC, storeCap, extVars, indexes, isRunning, readyChan, sendVal, dumps>>

\* ------------------------------------------------ the truncation timer
\* time.NewTimer(time.Minute * 30) expires: one tick is put in truncRaftlogTimer.C.
\* The timer is never Reset, so it expires once.
TruncTimerFire ==
    /\ truncTimer = "armed"
    /\ truncTimer' = "fired"
    /\ UNCHANGED <<loopVars, raftVars, repairVars, storeVars, extVars, fsVars>>
    /\ UNCHANGED <<minAppliedId, lastTruncateId, isCoord, remoteApplied, gm, truncates>>

\* case <-truncRaftlogTimer.C: the handler starts with dp.getMinAppliedId().
LoopTruncTick ==
    /\ loopPc = "select"
    /\ truncTimer = "fired"
    /\ truncTimer' = "done"
    /\ loopPc' = "getMin"
    /\ UNCHANGED <<applyId, stopC, raftVars, repairVars, storeVars, extVars, fsVars>>
    /\ UNCHANGED <<minAppliedId, lastTruncateId, isCoord, remoteApplied, gm, truncates>>

\* The argument of the deferred call is evaluated by the defer statement:
\* newMinAppliedId is the local minAppliedId as it is then.
DeferArg(localMinAppliedId) == localMinAppliedId

\* getMinAppliedId up to its loop: only the first host polls; the defer
\* statement; the packet; minAppliedId = dp.applyId.
GetMinEnter ==
    /\ loopPc = "getMin"
    /\ IF ~isCoord
          THEN /\ loopPc' = "truncCheck"
               /\ gm' = gm
          ELSE /\ loopPc' = "poll"
               /\ gm' = [i |-> 1,
                         newMinAppliedId |-> DeferArg(GmIdle.minAppliedId),
                         minAppliedId |-> applyId,
                         err |-> FALSE,
                         got |-> <<applyId>>]
    /\ UNCHANGED <<applyId, stopC, raftVars, repairVars, storeVars, extVars, fsVars>>
    /\ UNCHANGED <<minAppliedId, lastTruncateId, isCoord, remoteApplied, truncTimer, truncates>>

\* if remoteAppliedId < minAppliedId && remoteAppliedId != 0 { minAppliedId = remoteAppliedId }
FoldRemote(localMin, remoteAppliedId) ==
    IF remoteAppliedId < localMin /\ remoteAppliedId # 0 THEN remoteAppliedId ELSE localMin

\* One iteration of the loop over replicaHosts[1..]: the connection, the
\* write or the read fails (err is set and the function returns), or the
\* replica's applied index is read and folded into the minimum.
PollReplica ==
    /\ loopPc = "poll"
    /\ gm.i <= NRemote
    /\ \/ /\ gm' = [gm EXCEPT !.err = TRUE]
          /\ loopPc' = "getMinDefer"
       \/ /\ gm' = [gm EXCEPT !.minAppliedId = FoldRemote(@, GetAppliedId(gm.i)),
                              !.got = Append(@, GetAppliedId(gm.i)),
                              !.i = @ + 1]
          /\ loopPc' = "poll"
    /\ UNCHANGED <<applyId, stopC, raftVars, repairVars, storeVars, extVars, fsVars>>
    /\ UNCHANGED <<minAppliedId, lastTruncateId, isCoord, remoteApplied, truncTimer, truncates>>

\* The loop over the replicas is over: return.
PollEnd ==
    /\ loopPc = "poll"
    /\ gm.i > NRemote
    /\ loopPc' = "getMinDefer"
    /\ UNCHANGED <<applyId, stopC, truncVars, raftVars, repairVars, storeVars, extVars, fsVars>>

\* The deferred function: if err == nil { dp.minAppliedId = newMinAppliedId }
GetMinDefer ==
    /\ loopPc = "getMinDefer"
    /\ minAppliedId' = IF gm.err THEN minAppliedId ELSE gm.newMinAppliedId
    /\ loopPc' = "truncCheck"
    /\ UNCHANGED <<applyId, stopC, raftVars, repairVars, storeVars, extVars, fsVars>>
    /\ UNCHANGED <<lastTruncateId, isCoord, remoteApplied, truncTimer, gm, truncates>>

\* if dp.minAppliedId > dp.lastTruncateId {
\*     go dp.raftPartition.Truncate(dp.minAppliedId); dp.lastTruncateId = dp.minAppliedId }
\* With no handle attached the method value of a nil interface panics.
TruncCheck ==
    /\ loopPc = "truncCheck"
    /\ gm' = GmIdle
    /\ IF minAppliedId > lastTruncateId
          THEN IF raftPartition = Nil
                  THEN /\ loopPc' = "panicked"
                       /\ UNCHANGED <<truncates, lastTruncateId>>
                  ELSE /\ truncates' = Append(truncates, minAppliedId)
                       /\ lastTruncateId' = minAppliedId
                       /\ loopPc' = "top"
          ELSE /\ loopPc' = "top"
               /\ UNCHANGED <<truncates, lastTruncateId>>
    /\ UNCHANGED <<applyId, stopC, raftVars, repairVars, storeVars, extVars, fsVars>>
    /\ UNCHANGED <<minAppliedId, isCoord, remoteApplied, truncTimer>>

\* ---------------------------------------------------- consensus handle
\* stopRaft without "dp.raftPartition = nil": the engine is stopped, the
\* handle stays.
stopRaftKeepsHandle ==
    IF raftPartition # Nil
       THEN /\ liveHandles' = liveHandles - 1
            /\ raftPartition' = raftPartition
       ELSE UNCHANGED <<raftPartition, liveHandles>>

\* dp.stopRaft(): if dp.raftPartition != nil { dp.raftPartition.Stop(); dp.raftPartition = nil }
stopRaft ==
    IF raftPartition # Nil
       THEN /\ liveHandles' = liveHandles - 1
            /\ raftPartition' = Nil
       ELSE UNCHANGED <<raftPartition, liveHandles>>

\* if dp.raftPartition == nil && opRaftCode == opStartRaft
StartWanted(opRaftCode) == raftPartition = Nil /\ opRaftCode = "opStartRaft"

\* case opRaftCode := <-dp.raftC: with no handle attached a start request
\* calls dp.StartRaft(), which attaches the handle CreatePartition returns;
\* its error (the raft ports, the raft store) panics.
LoopRaftOp ==
    /\ loopPc = "select"
    /\ Len(raftC) > 0
    /\ raftC' = Tail(raftC)
    /\ IF StartWanted(Head(raftC))
          THEN \/ /\ raftPartition' = 1
                  /\ liveHandles' = liveHandles + 1
                  /\ loopPc' = "top"
               \/ /\ loopPc' = "panicked"
                  /\ UNCHANGED <<raftPartition, liveHandles>>
          ELSE /\ loopPc' = "top"
               /\ UNCHANGED <<raftPartition, liveHandles>>
    /\ UNCHANGED <<applyId, stopC, raftCap, truncVars, repairVars, storeVars, extVars, fsVars>>

\* -------------------------------------------------------------- repair
ExtentIds == 1..NExtents

\* What dp.IsLeader() can answer: no leader known, this node leads, another
\* node leads.
LeaderViews ==
    { [leaderAddr |-> "", isLeader |-> FALSE],
      [leaderAddr |-> "local", isLeader |-> TRUE],
      [leaderAddr |-> "peer1", isLeader |-> FALSE],
      [leaderAddr |-> "peer2", isLeader |-> FALSE] }

\* The apply path reports an apply error of extent e: e is sent on dp.repairC.
RequestRepair(e) ==
    /\ nRepairReq < MaxRepairs
    /\ raftPartition # Nil
    /\ nRepairReq' = nRepairReq + 1
    /\ repairC' = Append(repairC, e)
    /\ UNCHANGED <<rp, extentStore, loopVars, truncVars, raftVars, storeVars, extVars, fsVars>>

\* case extentId := <-dp.repairC: dp.ApplyErrRepair(extentId) starts with
\* leaderAddr, isLeader := dp.IsLeader()
LoopRepair ==
    /\ loopPc = "select"
    /\ Len(repairC) > 0
    /\ repairC' = Tail(repairC)
    /\ \E v \in LeaderViews :
          rp' = [extentId |-> Head(repairC), leaderAddr |-> v.leaderAddr,
                 isLeader |-> v.isLeader, err |-> FALSE, ops |-> <<>>]
    /\ loopPc' = "repairStopRaft"
    /\ UNCHANGED <<applyId, stopC, nRepairReq, extentStore, truncVars, raftVars, storeVars, extVars, fsVars>>

\* dp.stopRaft() in ApplyErrRepair
RepairStopRaft ==
    /\ loopPc = "repairStopRaft"
    /\ stopRaft
    /\ loopPc' = "repairWatermark"
    /\ UNCHANGED <<applyId, stopC, raftC, raftCap, truncVars, repairVars, storeVars, extVars, fsVars>>

\* ApplyErrRepair whose follower branch goes straight to the pull.
RepairBranchNoDelete(isLeader, leaderAddr) ==
    IF isLeader THEN "repairNotify"
    ELSE IF leaderAddr # "" THEN "repairPull"
    ELSE "sendRaftC"

\* The branch ApplyErrRepair takes once the watermark is there:
\*   if isLeader {...} else if leaderAddr != "" {...}
RepairBranch(isLeader, leaderAddr) ==
    IF isLeader THEN "repairNotify"
    ELSE IF leaderAddr # "" THEN "repairDelete"
    ELSE "sendRaftC"

\* extentInfo, err := dp.extentStore.GetOneWatermark(...); if err != nil { return }
RepairWatermark ==
    /\ loopPc = "repairWatermark"
    /\ \/ /\ rp' = [rp EXCEPT !.err = TRUE]
          /\ loopPc' = "sendRaftC"
       \/ /\ rp' = rp
          /\ loopPc' = RepairBranch(rp.isLeader, rp.leaderAddr)
    /\ UNCHANGED <<applyId, stopC, repairC, nRepairReq, extentStore,
                   truncVars, raftVars, storeVars, extVars, fsVars>>

\* The leader: dp.NotifyRaftFollowerRepair(memberMetas); its error is logged.
RepairNotify ==
    /\ loopPc = "repairNotify"
    /\ rp' = [rp EXCEPT !.ops = Append(@, <<"notify", rp.extentId, rp.leaderAddr>>)]
    /\ loopPc' = "sendRaftC"
    /\ UNCHANGED <<applyId, stopC, repairC, nRepairReq, extentStore,
                   truncVars, raftVars, storeVars, extVars, fsVars>>

\* The follower: dp.extentStore.DeleteDirtyExtent(extentId)
RepairDelete ==
    /\ loopPc = "repairDelete"
    /\ extentStore' = [extentStore EXCEPT ![rp.extentId] = "deleted"]
    /\ rp' = [rp EXCEPT !.ops = Append(@, <<"delete", rp.extentId, "">>)]
    /\ loopPc' = "repairPull"
    /\ UNCHANGED <<applyId, stopC, repairC, nRepairReq, truncVars, raftVars, storeVars, extVars, fsVars>>

\* extentInfo.Source = leaderAddr; dp.ExtentRepair(extentFiles): one add
\* task per file, with the file's Source, handed to MergeRepair.
ExtentRepair(extentId, source) == <<"pull", extentId, source>>

\* The follower: the pull of the extent from the leader.
RepairPull ==
    /\ loopPc = "repairPull"
    /\ extentStore' = [extentStore EXCEPT ![rp.extentId] = "merged"]
    /\ rp' = [rp EXCEPT !.ops = Append(@, ExtentRepair(rp.extentId, rp.leaderAddr))]
    /\ loopPc' = "sendRaftC"
    /\ UNCHANGED <<applyId, stopC, repairC, nRepairReq, truncVars, raftVars, storeVars, extVars, fsVars>>

\* dp.raftC <- opStartRaft, after ApplyErrRepair has returned: the send
\* completes when the buffer of raftC has room (the loop is the only receiver).
LoopSendRaftC ==
    /\ loopPc = "sendRaftC"
    /\ Len(raftC) < raftCap
    /\ raftC' = Append(raftC, "opStartRaft")
    /\ rp' = RpIdle
    /\ loopPc' = "top"
    /\ UNCHANGED <<applyId, stopC, raftPartition, liveHandles, raftCap, repairC, nRepairReq,
                   extentStore, truncVars, storeVars, extVars, fsVars>>

\* ------------------------------------------- the applied-index file
\* TempApplyIndexFile and ApplyIndexFile in dp.Path()
Temp == "temp"
Canon == "apply"

\* fmt.Sprintf("%d", applyIndex): the decimal digits
RECURSIVE Digits(_)
Digits(n) == IF n < 10 THEN <<n>> ELSE Digits(n \div 10) \o <<n % 10>>

\* One dumpFunc goroutine per index in flight.
DumpIds == 1..(MaxIndex + 1)
InodeIds == 1..(MaxIndex + 3)

FreeDump == [pc |-> "free", idx |-> 0, fd |-> 0, err |-> FALSE]
NoInode == [data |-> <<>>, durable |-> 0]

\* The inodes a name or an open file still refers to.
Referenced(fs, ds) ==
    {fs[n] : n \in {Temp, Canon}} \cup {ds[d].fd : d \in DumpIds}

\* An inode nothing refers to is gone.
Collect(ino, fs, ds) ==
    [i \in InodeIds |-> IF i \in Referenced(fs, ds) THEN ino[i] ELSE NoInode]

FreshInode == CHOOSE i \in InodeIds : i \notin Referenced(files, dumps)

\* What a reader of the canonical applied-index file gets: its bytes, or
\* Missing when there is no such file.
Missing == <<-1>>

ReadCanon == IF files[Canon] = 0 THEN Missing ELSE inodes[files[Canon]].data

\* os.OpenFile(filename, O_RDWR|O_APPEND|O_TRUNC|O_CREATE): an existing
\* temporary file is truncated, a missing one is created. On an error
\* storeApplyIndex returns before its defer statement.
SaiOpen(d) ==
    /\ dumps[d].pc = "open"
    /\ \/ /\ dumps' = [dumps EXCEPT ![d].pc = "ret", ![d].err = TRUE]
          /\ UNCHANGED <<files, inodes>>
       \/ /\ files[Temp] # 0
          /\ inodes' = [inodes EXCEPT ![files[Temp]] = NoInode]
          /\ dumps' = [dumps EXCEPT ![d].pc = "write", ![d].fd = files[Temp]]
          /\ files' = files
       \/ /\ files[Temp] = 0
          /\ files' = [files EXCEPT ![Temp] = FreshInode]
          /\ inodes' = [inodes EXCEPT ![FreshInode] = NoInode]
          /\ dumps' = [dumps EXCEPT ![d].pc = "write", ![d].fd = FreshInode]
    /\ UNCHANGED <<persisted, stored, crashed, loopVars, truncVars, raftVars, repairVars>>
    /\ UNCHANGED <<storeC, storeCap, extVars, storeTimer, indexes, isRunning, readyChan, sendVal>>

\* fp.WriteString(fmt.Sprintf("%d", applyIndex)): appended to the file
\* (O_APPEND); on an error the deferred cleanup runs.
SaiWrite(d) ==
    /\ dumps[d].pc = "write"
    /\ \/ /\ dumps' = [dumps EXCEPT ![d].pc = "sync", ![d].err = TRUE]
          /\ UNCHANGED inodes
       \/ /\ inodes' = [inodes EXCEPT ![dumps[d].fd].data = @ \o Digits(dumps[d].idx)]
          /\ dumps' = [dumps EXCEPT ![d].pc = "rename"]
    /\ UNCHANGED <<files, persisted, stored, crashed, loopVars, truncVars, raftVars, repairVars>>
    /\ UNCHANGED <<storeC, storeCap, extVars, storeTimer, indexes, isRunning, readyChan, sendVal>>

\* os.Rename(filename, ApplyIndexFile): the name of the canonical file now
\* refers to whatever the temporary name referred to; an error when the
\* temporary file is gone. The deferred cleanup runs after it.
SaiRename(d) ==
    /\ dumps[d].pc = "rename"
    /\ \/ /\ dumps' = [dumps EXCEPT ![d].pc = "sync", ![d].err = TRUE]
          /\ UNCHANGED <<files, inodes>>
       \/ /\ files[Temp] # 0
          /\ dumps' = [dumps EXCEPT ![d].pc = "sync"]
          /\ files' = [files EXCEPT ![Canon] = files[Temp], ![Temp] = 0]
          /\ inodes' = Collect(inodes, files', dumps')
    /\ UNCHANGED <<persisted, stored, crashed, loopVars, truncVars, raftVars, repairVars>>
    /\ UNCHANGED <<storeC, storeCap, extVars, storeTimer, indexes, isRunning, readyChan, sendVal>>

\* The deferred function, first statement: fp.Sync()
SaiSync(d) ==
    /\ dumps[d].pc = "sync"
    /\ inodes' = [inodes EXCEPT ![dumps[d].fd].durable = Len(inodes[dumps[d].fd].data)]
    /\ dumps' = [dumps EXCEPT ![d].pc = "remove"]
    /\ UNCHANGED <<files, persisted, stored, crashed, loopVars, truncVars, raftVars, repairVars>>
    /\ UNCHANGED <<storeC, storeCap, extVars, storeTimer, indexes, isRunning, readyChan, sendVal>>

\* The deferred function, the rest: fp.Close(); os.Remove(filename)
SaiRemove(d) ==
    /\ dumps[d].pc = "remove"
    /\ dumps' = [dumps EXCEPT ![d].pc = "ret", ![d].fd = 0]
    /\ files' = [files EXCEPT ![Temp] = 0]
    /\ inodes' = Collect(inodes, files', dumps')
    /\ stored' = IF dumps[d].err THEN stored ELSE <<stored[2], ReadCanon>>
    /\ UNCHANGED <<persisted, crashed, loopVars, truncVars, raftVars, repairVars>>
    /\ UNCHANGED <<storeC, storeCap, extVars, storeTimer, indexes, isRunning, readyChan, sendVal>>

\* dp.storeApplyIndex(applyIndex), step by step
storeApplyIndex(d) ==
    \/ SaiOpen(d)
    \/ SaiWrite(d)
    \/ SaiRename(d)
    \/ SaiSync(d)
    \/ SaiRemove(d)

\* ------------------------------------------------------------ dumpFunc
\* if err := dp.storeApplyIndex(applyIndex); err != nil { dp.storeC <- applyIndex ... }
DumpAfterStore(d) ==
    /\ dumps[d].pc = "ret"
    /\ IF dumps[d].err
          THEN /\ storeC' = Append(storeC, [idx |-> dumps[d].idx, by |-> d])
               /\ dumps' = [dumps EXCEPT ![d].pc = "sending"]
          ELSE /\ storeC' = storeC
               /\ dumps' = [dumps EXCEPT ![d].pc = "finish"]
    /\ UNCHANGED <<loopVars, truncVars, raftVars, repairVars, fsVars>>
    /\ UNCHANGED <<storeCap, extVars, storeTimer, indexes, isRunning, readyChan, sendVal>>

\* The send of d on storeC is still blocked: its entry lies behind the buffer.
SendBlocked(d) == \E k \in 1..Len(storeC) : k > storeCap /\ storeC[k].by = d

\* The send on storeC has completed (the value is in the buffer, or received).
DumpSent(d) ==
    /\ dumps[d].pc = "sending"
    /\ ~SendBlocked(d)
    /\ dumps' = [dumps EXCEPT ![d].pc = "finish"]
    /\ UNCHANGED <<loopVars, truncVars, raftVars, repairVars, fsVars>>
    /\ UNCHANGED <<storeC, storeCap, extVars, storeTimer, indexes, isRunning, readyChan, sendVal>>

\* isRunning = false, and the goroutine ends.
DumpFinish(d) ==
    /\ dumps[d].pc = "finish"
    /\ isRunning' = FALSE
    /\ dumps' = [dumps EXCEPT ![d] = FreeDump]
    /\ UNCHANGED <<loopVars, truncVars, raftVars, repairVars, fsVars>>
    /\ UNCHANGED <<storeC, storeCap, extVars, storeTimer, indexes, readyChan, sendVal>>

\* dp.storeApplyIndex(applyIndex) from the call to the return, with no other
\* storeApplyIndex in between: an error of OpenFile, WriteString or Rename
\* leaves the directory as it was (the deferred Remove takes the temporary
\* file away); else the canonical name refers to a new file that holds the
\* digits, synced by the deferred Sync.
storeApplyIndexCall(d) ==
    /\ dumps[d].pc = "open"
    /\ files[Temp] = 0
    /\ \/ /\ dumps' = [dumps EXCEPT ![d].pc = "ret", ![d].err = TRUE]
          /\ UNCHANGED <<files, inodes, stored>>
       \/ /\ dumps' = [dumps EXCEPT ![d].pc = "ret"]
          /\ files' = [files EXCEPT ![Canon] = FreshInode]
          /\ inodes' = [i \in InodeIds |->
                           IF i = FreshInode
                              THEN [data |-> Digits(dumps[d].idx),
                                    durable |-> Len(Digits(dumps[d].idx))]
                              ELSE NoInode]
          /\ stored' = <<stored[2], Digits(dumps[d].idx)>>
    /\ UNCHANGED <<persisted, crashed, loopVars, truncVars, raftVars, repairVars>>
    /\ UNCHANGED <<storeC, storeCap, extVars, storeTimer, indexes, isRunning, readyChan, sendVal>>

dumpFunc(d) ==
    \/ storeApplyIndexCall(d)
    \/ DumpAfterStore(d)
    \/ DumpSent(d)
    \/ DumpFinish(d)

\* --------------------------------------- the loop: persistence events
\* readyChan <- struct{}{}: readyChan has capacity 1.
LoopSendReady ==
    /\ loopPc = "sendReady"
    /\ readyChan = 0
    /\ readyChan' = 1
    /\ loopPc' = "select"
    /\ UNCHANGED <<applyId, stopC, truncVars, raftVars, repairVars, fsVars>>
    /\ UNCHANGED <<storeC, storeCap, extVars, storeTimer, indexes, isRunning, sendVal, dumps>>

\* The free dumpFunc slots, lowest first.
RECURSIVE FreeSlots(_, _)
FreeSlots(ds, from) ==
    IF from > MaxIndex + 1 THEN <<>>
    ELSE IF ds[from].pc = "free" THEN <<from>> \o FreeSlots(ds, from + 1)
    ELSE FreeSlots(ds, from + 1)

\* for _, idx := range indexes { go dumpFunc(idx) }
Launch(ds, idxs) ==
    LET slots == FreeSlots(ds, 1)
    IN  [d \in DumpIds |->
            IF \E k \in 1..Len(idxs) : slots[k] = d
               THEN [pc |-> "open",
                     idx |-> idxs[CHOOSE k \in 1..Len(idxs) : slots[k] = d],
                     fd |-> 0, err |-> FALSE]
               ELSE ds[d]]

\* case <-readyChan: a dumpFunc goroutine is started for every index
\* collected, and indexes = nil.
LoopReady ==
    /\ loopPc = "select"
    /\ readyChan = 1
    /\ Len(FreeSlots(dumps, 1)) >= Len(indexes)
    /\ readyChan' = 0
    /\ dumps' = Launch(dumps, indexes)
    /\ indexes' = <<>>
    /\ loopPc' = "top"
    /\ UNCHANGED <<applyId, stopC, truncVars, raftVars, repairVars, fsVars>>
    /\ UNCHANGED <<storeC, storeCap, extVars, storeTimer, isRunning, sendVal>>

\* case applyId := <-dp.storeC: indexes = append(indexes, applyId)
LoopStore ==
    /\ loopPc = "select"
    /\ Len(storeC) > 0
    /\ indexes' = Append(indexes, Head(storeC).idx)
    /\ storeC' = Tail(storeC)
    /\ loopPc' = "top"
    /\ UNCHANGED <<applyId, stopC, truncVars, raftVars, repairVars, fsVars>>
    /\ UNCHANGED <<storeCap, extVars, storeTimer, isRunning, readyChan, sendVal, dumps>>

\* time.NewTimer(time.Minute * 5) expires; it is never Reset either.
StoreTimerFire ==
    /\ storeTimer = "armed"
    /\ storeTimer' = "fired"
    /\ UNCHANGED <<loopVars, truncVars, raftVars, repairVars, fsVars>>
    /\ UNCHANGED <<storeC, storeCap, extVars, indexes, isRunning, readyChan, sendVal, dumps>>

\* case <-storeAppliedTimer.C: dp.storeC <- dp.applyId, the value read
LoopReportTick ==
    /\ loopPc = "select"
    /\ storeTimer = "fired"
    /\ storeTimer' = "done"
    /\ sendVal' = applyId
    /\ loopPc' = "sendStoreC"
    /\ UNCHANGED <<applyId, stopC, truncVars, raftVars, repairVars, fsVars>>
    /\ UNCHANGED <<storeC, storeCap, extVars, indexes, isRunning, readyChan, dumps>>

\* dp.storeC <- dp.applyId, the send: it completes when the buffer of
\* storeC has room (the loop is the only receiver).
LoopSendStoreC ==
    /\ loopPc = "sendStoreC"
    /\ Len(storeC) < storeCap
    /\ storeC' = Append(storeC, [idx |-> sendVal, by |-> 0])
    /\ sendVal' = 0
    /\ loopPc' = "top"
    /\ UNCHANGED <<applyId, stopC, truncVars, raftVars, repairVars, fsVars>>
    /\ UNCHANGED <<storeCap, extVars, storeTimer, indexes, isRunning, readyChan, dumps>>

\* --------------------------------------------------------------- crash
\* The node goes down: every goroutine is gone, and of every file the
\* bytes fsync made durable survive, with any number of the later ones.
Crash ==
    /\ ~crashed
    /\ crashed' = TRUE
    /\ \E keep \in [InodeIds -> 0..SetMax({Len(inodes[i].data) : i \in InodeIds})] :
          /\ \A i \in InodeIds :
                /\ keep[i] >= inodes[i].durable
                /\ keep[i] <= Len(inodes[i].data)
          /\ inodes' = [i \in InodeIds |->
                           [data |-> SubSeq(inodes[i].data, 1, keep[i]), durable |-> keep[i]]]
    /\ dumps' = [d \in DumpIds |->
                    IF dumps[d].pc = "free" THEN FreeDump
                    ELSE [dumps[d] EXCEPT !.pc = "dead", !.fd = 0]]
    /\ loopPc' = "down"
    /\ UNCHANGED <<applyId, stopC, files, persisted, stored, truncVars, raftVars, repairVars>>
    /\ UNCHANGED <<storeC, storeCap, extVars, storeTimer, indexes, isRunning, readyChan, sendVal>>

\* ------------------------------------------------------ LoadApplyIndex
\* fmt.Sscanf(string(data), "%d", &dp.applyId): the number the leading
\* decimal digits denote
RECURSIVE ScanDigits(_)
ScanDigits(data) ==
    IF Len(data) = 0 THEN 0
    ELSE ScanDigits(SubSeq(data, 1, Len(data) - 1)) * 10 + data[Len(data)]

\* dp.LoadApplyIndex(), called when the partition is loaded after a restart:
\* no canonical file (os.Stat fails): nil; ReadFile fails: an error; no bytes:
\* the error "ApplyIndex is empty"; else the digits are scanned into applyId.
LoadApplyIndex ==
    /\ loadErr = "none"
    /\ crashed \/ \A d \in DumpIds : dumps[d].pc \in {"free", "ret"}
    /\ IF ReadCanon = Missing
          THEN /\ loadErr' = "nil"
               /\ applyId' = applyId
          ELSE \/ /\ loadErr' = "ReadFile"
                  /\ applyId' = applyId
               \/ IF Len(ReadCanon) = 0
                     THEN /\ loadErr' = "ApplyIndex is empty"
                          /\ applyId' = applyId
                     ELSE /\ loadErr' = "nil"
                          /\ applyId' = ScanDigits(ReadCanon)
    /\ UNCHANGED <<stopC, loopPc, truncVars, raftVars, repairVars, storeVars, fsVars>>
    /\ UNCHANGED <<confVars, streamVars, writerVars>>

\* ---------------------------------------------- the stream client
\* The data nodes a StreamConn can name are 1..NHosts; 0 is the empty address.
HostIds == 1..NHosts

\* How a data node answers during a run:
\*   "down"       no connection to it can be obtained
\*   "writeErr"   req.WriteToConn fails
\*   "ok"         getReply returns (nil, false)
\*   "notLeader"  getReply returns (NotLeaderError, false)
\*   "replyErr"   getReply returns (another error, false)
\*   "retryErr"   getReply returns (another error, true)
\*   "retryNil"   getReply returns (nil, true)
HostModes == {"down", "writeErr", "ok", "notLeader", "replyErr", "retryErr", "retryNil"}

\* The frame of Send before the call: i of Send, k of the range over
\* sc.hosts, j of sendToConn, conn and err of sendToPartition; and what the
\* call has done so far.
SdIdle ==
    [pc |-> "idle", i |-> 0, k |-> 0, j |-> 0, conn |-> 0, err |-> "nil", via |-> "",
     curr0 |-> 0, tried |-> <<>>, deliveries |-> <<>>, accepted |-> 0]

\* StreamConnPool.Get(addr) hands out a connection
PoolGets(addr) == addr \in HostIds /\ hostMode[addr] # "down"

\* req.WriteToConn(conn)
WriteToConn(mode) == IF mode = "writeErr" THEN "other" ELSE "nil"

\* getReply(conn): (err, again)
GetReply(mode) ==
    CASE mode = "ok" -> [err |-> "nil", again |-> FALSE]
      [] mode = "notLeader" -> [err |-> "NotLeaderError", again |-> FALSE]
      [] mode = "replyErr" -> [err |-> "other", again |-> FALSE]
      [] mode = "retryErr" -> [err |-> "other", again |-> TRUE]
      [] OTHER -> [err |-> "nil", again |-> TRUE]

\* StreamConnPool.Put(conn, true) for every delivery, failed or not.
ForceCloseAlways(err) == TRUE

\* The forceClose argument of StreamConnPool.Put: false after err == nil,
\* true otherwise.
ForceClose(err) == err # "nil"

\* The range over sc.hosts without "sc.currAddr = addr".
CachedStays(addr, curr) == curr

\* sc.currAddr = addr, once a connection to addr is there
CachedAfterGet(addr, curr) == addr

\* Send is called: for i := 0; ...
SendCall ==
    /\ sd.pc = "idle"
    /\ Len(sendLog) < MaxSends
    /\ sd' = [SdIdle EXCEPT !.pc = "send", !.curr0 = currAddr]
    /\ UNCHANGED <<hosts, hostMode, currAddr, conns, sendLog>>
    /\ UNCHANGED <<loopVars, truncVars, raftVars, repairVars, storeVars, fsVars, loadErr, confVars, writerVars>>

\* What Send has done, when it returns ret.
SendRecord(ret, deliveries) ==
    [ret |-> ret, curr0 |-> sd.curr0, tried |-> sd.tried, deliveries |-> deliveries,
     accepted |-> sd.accepted, currAfter |-> currAddr]

\* The head of the loop of Send: one more sendToPartition, or, after
\* StreamSendMaxRetry of them, the error "retried ... times and still failed".
SendLoop ==
    /\ sd.pc = "send"
    /\ IF sd.i < StreamSendMaxRetry
          THEN /\ sd' = [sd EXCEPT !.pc = "getCurr"]
               /\ sendLog' = sendLog
          ELSE /\ sd' = SdIdle
               /\ sendLog' = Append(sendLog, SendRecord("err", sd.deliveries))
    /\ UNCHANGED <<hosts, hostMode, currAddr, conns>>
    /\ UNCHANGED <<loopVars, truncVars, raftVars, repairVars, storeVars, fsVars, loadErr, confVars, writerVars>>

\* A connection the pool has handed out and not yet got back.
NewConn(addr) == [addr |-> addr, puts |-> 0, broken |-> FALSE, err |-> "nil"]

\* sendToPartition: conn, err := StreamConnPool.Get(sc.currAddr)
SendGetCurr ==
    /\ sd.pc = "getCurr"
    /\ IF PoolGets(currAddr)
          THEN /\ conns' = Append(conns, NewConn(currAddr))
               /\ sd' = [sd EXCEPT !.pc = "conn", !.via = "curr", !.j = 0, !.err = "nil",
                                   !.conn = Len(conns) + 1,
                                   !.tried = Append(@, currAddr)]
          ELSE /\ conns' = conns
               /\ sd' = [sd EXCEPT !.pc = "hosts", !.k = 1, !.err = "dial",
                                   !.tried = Append(@, currAddr)]
    /\ UNCHANGED <<hosts, hostMode, currAddr, sendLog>>
    /\ UNCHANGED <<loopVars, truncVars, raftVars, repairVars, storeVars, fsVars, loadErr, confVars, writerVars>>

\* sendToConn, one turn of its loop: after StreamSendMaxRetry turns the loop
\* is over and err is what the last turn left; a failed write breaks; a reply
\* without "again" breaks; a reply with "again" sleeps and goes on.
SendToConn ==
    /\ sd.pc = "conn"
    /\ LET addr == conns[sd.conn].addr
           w == WriteToConn(hostMode[addr])
           r == GetReply(hostMode[addr])
       IN  IF sd.j >= StreamSendMaxRetry
              THEN sd' = [sd EXCEPT !.pc = "put"]
           ELSE IF w # "nil"
              THEN sd' = [sd EXCEPT !.pc = "put", !.err = w]
           ELSE IF ~r.again
              THEN sd' = [sd EXCEPT !.pc = "put", !.err = r.err,
                                    !.accepted = IF r.err = "nil" THEN addr ELSE @]
           ELSE sd' = [sd EXCEPT !.j = @ + 1, !.err = r.err]
    /\ UNCHANGED <<hosts, hostMode, currAddr, conns, sendLog>>
    /\ UNCHANGED <<loopVars, truncVars, raftVars, repairVars, storeVars, fsVars, loadErr, confVars, writerVars>>

\* sendToPartition after sendToConn: the connection goes back to the pool;
\* err == nil returns nil (and so does Send); an error other than
\* NotLeaderError returns it to Send; NotLeaderError goes on with sc.hosts.
SendPut ==
    /\ sd.pc = "put"
    /\ conns' = [conns EXCEPT ![sd.conn] =
                    [@ EXCEPT !.puts = @ + 1, !.broken = ForceClose(sd.err), !.err = sd.err]]
    /\ LET ds == Append(sd.deliveries, [addr |-> conns[sd.conn].addr, err |-> sd.err])
       IN  IF sd.err = "nil"
              THEN /\ sd' = SdIdle
                   /\ sendLog' = Append(sendLog, SendRecord("nil", ds))
           ELSE /\ sendLog' = sendLog
                /\ IF sd.err # "NotLeaderError"
                      THEN sd' = [sd EXCEPT !.pc = "send", !.i = @ + 1, !.conn = 0,
                                            !.deliveries = ds]
                      ELSE sd' = [sd EXCEPT !.pc = "hosts", !.conn = 0, !.deliveries = ds,
                                            !.k = IF sd.via = "curr" THEN 1 ELSE @ + 1]
    /\ UNCHANGED <<hosts, hostMode, currAddr>>
    /\ UNCHANGED <<loopVars, truncVars, raftVars, repairVars, storeVars, fsVars, loadErr, confVars, writerVars>>

\* for _, addr := range sc.hosts: no connection: continue; else
\* sc.currAddr = addr and the delivery; past the last host the error
\* "sendToPatition Failed" goes back to Send.
SendHosts ==
    /\ sd.pc = "hosts"
    /\ IF sd.k > Len(hosts)
          THEN /\ sd' = [sd EXCEPT !.pc = "send", !.i = @ + 1, !.err = "other"]
               /\ UNCHANGED <<currAddr, conns>>
          ELSE LET addr == hosts[sd.k]
               IN  IF PoolGets(addr)
                      THEN /\ currAddr' = CachedAfterGet(addr, currAddr)
                           /\ conns' = Append(conns, NewConn(addr))
                           /\ sd' = [sd EXCEPT !.pc = "conn", !.via = "hosts", !.j = 0,
                                               !.err = "nil", !.conn = Len(conns) + 1,
                                               !.tried = Append(@, addr)]
                      ELSE /\ sd' = [sd EXCEPT !.k = @ + 1, !.err = "dial",
                                               !.tried = Append(@, addr)]
                           /\ UNCHANGED <<currAddr, conns>>
    /\ UNCHANGED <<hosts, hostMode, sendLog>>
    /\ UNCHANGED <<loopVars, truncVars, raftVars, repairVars, storeVars, fsVars, loadErr, confVars, writerVars>>

\* ------------------------------------------------ configuration changes
PeerIds == 1..MaxPeerId

\* dp.config.NodeId: the local node
NodeId == 1

\* The index of the configuration entry the engine hands to the partition:
\* the entry after the last one applied.
EntryIndex == engineApplied + 1

\* The engine applies one entry at a time: the entry handled last has been
\* recorded as applied.
EntryDue == confRet.index <= engineApplied /\ engineApplied < MaxConfChanges

\* The consensus engine records the entry it handed over as applied.
EngineAdvance ==
    /\ confRet.index = EntryIndex
    /\ engineApplied' = EntryIndex
    /\ UNCHANGED <<peers, confRet, removers, teardowns, dirRemoved>>
    /\ UNCHANGED <<loopVars, truncVars, raftVars, repairVars, storeVars, fsVars, loadErr, streamVars, writerVars>>

\* The peer list without its k-th peer:
\*   append(dp.config.Peers[:peerIndex], dp.config.Peers[peerIndex+1:]...)
WithoutPeer(ps, k) == SubSeq(ps, 1, k - 1) \o SubSeq(ps, k + 1, Len(ps))

\* dp.confAddNode(req, index): an error when the raft ports cannot be
\* determined; not updated when the peer is in the list; else the peer is
\* appended (and registered with the raft store).
confAddNode(p) ==
    /\ EntryDue
    /\ \/ /\ confRet' = [op |-> "add", peer |-> p, index |-> EntryIndex,
                         updated |-> FALSE, err |-> "getRaftPort"]
          /\ peers' = peers
       \/ /\ confRet' = [op |-> "add", peer |-> p, index |-> EntryIndex,
                         updated |-> p \notin Range(peers), err |-> "nil"]
          /\ peers' = IF p \in Range(peers) THEN peers ELSE Append(peers, p)
    /\ UNCHANGED <<engineApplied, removers, teardowns, dirRemoved>>
    /\ UNCHANGED <<loopVars, truncVars, raftVars, repairVars, storeVars, fsVars, loadErr, streamVars, writerVars>>

\* dp.confRemoveNode(req, index): an error with no consensus handle; not
\* updated when the peer is not in the list; the local node: the self-removal
\* goroutine is started and updated = false; another peer is taken out of
\* the list.
confRemoveNode(p) ==
    /\ EntryDue
    /\ IF raftPartition = Nil
          THEN /\ confRet' = [op |-> "remove", peer |-> p, index |-> EntryIndex,
                              updated |-> FALSE, err |-> "RaftIsNotStart"]
               /\ UNCHANGED <<peers, removers>>
       ELSE IF p \notin Range(peers)
          THEN /\ confRet' = [op |-> "remove", peer |-> p, index |-> EntryIndex,
                              updated |-> FALSE, err |-> "nil"]
               /\ UNCHANGED <<peers, removers>>
       ELSE IF p = NodeId
          THEN /\ removers' = Append(removers, [pc |-> "sleep", index |-> EntryIndex])
               /\ confRet' = [op |-> "remove", peer |-> p, index |-> EntryIndex,
                              updated |-> FALSE, err |-> "nil"]
               /\ peers' = peers
       ELSE /\ peers' = WithoutPeer(peers, CHOOSE k \in 1..Len(peers) : peers[k] = p)
            /\ confRet' = [op |-> "remove", peer |-> p, index |-> EntryIndex,
                           updated |-> TRUE, err |-> "nil"]
            /\ removers' = removers
    /\ UNCHANGED <<engineApplied, teardowns, dirRemoved>>
    /\ UNCHANGED <<loopVars, truncVars, raftVars, repairVars, storeVars, fsVars, loadErr, streamVars, writerVars>>

\* The self-removal goroutine that tears down without the wait.
RemoverGoesAtOnce(applied, index) == TRUE

\* if dp.raftPartition.AppliedIndex() < index { continue }
RemoverMayGo(applied, index) == ~(applied < index)

\* The self-removal goroutine after time.Sleep: the engine's applied index is
\* read through the handle (a nil handle panics) and, when it has reached the
\* index of the removal entry, the teardown begins.
RemoverCheck(g) ==
    /\ g <= Len(removers)
    /\ removers[g].pc = "sleep"
    /\ IF raftPartition = Nil
          THEN /\ removers' = [removers EXCEPT ![g].pc = "panicked"]
               /\ loopPc' = "panicked"
          ELSE /\ RemoverMayGo(engineApplied, removers[g].index)
               /\ removers' = [removers EXCEPT ![g].pc = "delete"]
               /\ loopPc' = loopPc
    /\ UNCHANGED <<peers, engineApplied, confRet, teardowns, dirRemoved>>
    /\ UNCHANGED <<applyId, stopC, truncVars, raftVars, repairVars, storeVars, fsVars, loadErr, streamVars, writerVars>>

\* A step of the teardown, with the index it waited for and the engine's
\* applied index when it is taken.
Teardown(step, g) == [step |-> step, index |-> removers[g].index, applied |-> engineApplied]

\* if dp.raftPartition != nil { dp.raftPartition.Delete() }
RemoverDelete(g) ==
    /\ g <= Len(removers)
    /\ removers[g].pc = "delete"
    /\ removers' = [removers EXCEPT ![g].pc = "stop"]
    /\ teardowns' = IF raftPartition # Nil THEN Append(teardowns, Teardown("delete", g))
                    ELSE teardowns
    /\ UNCHANGED <<peers, engineApplied, confRet, dirRemoved>>
    /\ UNCHANGED <<loopVars, truncVars, raftVars, repairVars, storeVars, fsVars, loadErr, streamVars, writerVars>>

\* dp.Stop(): the partition is stopped; the stop signal reaches the loop
\* through dp.stopC.
Stop == TRUE

\* dp.Stop() in the self-removal goroutine
RemoverStop(g) ==
    /\ g <= Len(removers)
    /\ removers[g].pc = "stop"
    /\ removers' = [removers EXCEPT ![g].pc = "removeAll"]
    /\ stopC' = Stop
    /\ teardowns' = Append(teardowns, Teardown("stop", g))
    /\ UNCHANGED <<peers, engineApplied, confRet, dirRemoved>>
    /\ UNCHANGED <<applyId, loopPc, truncVars, raftVars, repairVars, storeVars, fsVars, loadErr, streamVars, writerVars>>

\* os.RemoveAll(dp.Path()): the directory of the partition, with the
\* applied-index files, is gone; the goroutine returns.
RemoverRemoveAll(g) ==
    /\ g <= Len(removers)
    /\ removers[g].pc = "removeAll"
    /\ removers' = [removers EXCEPT ![g].pc = "done"]
    /\ dirRemoved' = TRUE
    /\ files' = [n \in {Temp, Canon} |-> 0]
    /\ inodes' = Collect(inodes, files', dumps)
    /\ teardowns' = Append(teardowns, Teardown("removeAll", g))
    /\ UNCHANGED <<peers, engineApplied, confRet, persisted, stored, crashed>>
    /\ UNCHANGED <<loopVars, truncVars, raftVars, repairVars, storeVars, loadErr, streamVars, writerVars>>

\* ------------------------------------------- the asynchronous writer
\* The goroutines that call the writer, and the one NewAsyncFileWriter
\* starts for flushScheduler.
Callers == 1..NCallers
SchedId == NCallers + 1

\* A goroutine that is in no call of the writer.
WtIdle == [op |-> "", pc |-> "", after |-> "", p |-> 0, flushBytes |-> <<>>]

\* What none of the writer's actions changes.
WriterRest == <<loopVars, truncVars, raftVars, repairVars, storeVars, fsVars,
                loadErr, confVars, streamVars>>

\* flushToFile returns to its caller: Write and Flush return in turn, Close
\* and flushScheduler go on.
FlushReturn(frame) ==
    IF frame.after = "ret" THEN WtIdle
    ELSE [frame EXCEPT !.pc = frame.after, !.after = "", !.flushBytes = <<>>]

\* A goroutine calls writer.Write(p), p one new byte.
CallWrite(t) ==
    /\ wt[t].op = ""
    /\ accepted < MaxWrites
    /\ accepted' = accepted + 1
    /\ wt' = [wt EXCEPT ![t] = [WtIdle EXCEPT !.op = "Write", !.pc = "lock", !.p = accepted + 1]]
    /\ UNCHANGED <<mu, buffer, fileBytes, fileOpen, closeC, closeOnce, ticker, closeSeen>>
    /\ UNCHANGED WriterRest

\* A goroutine calls writer.Flush(): writer.flushToFile()
CallFlush(t) ==
    /\ wt[t].op = ""
    /\ wt' = [wt EXCEPT ![t] = [WtIdle EXCEPT !.op = "Flush", !.pc = "fLock", !.after = "ret"]]
    /\ UNCHANGED <<mu, buffer, fileBytes, fileOpen, closeC, closeOnce, ticker, accepted, closeSeen>>
    /\ UNCHANGED WriterRest

\* A goroutine calls writer.Close().
CallClose(t) ==
    /\ wt[t].op = ""
    /\ wt' = [wt EXCEPT ![t] = [WtIdle EXCEPT !.op = "Close", !.pc = "lock"]]
    /\ UNCHANGED <<mu, buffer, fileBytes, fileOpen, closeC, closeOnce, ticker, accepted, closeSeen>>
    /\ UNCHANGED WriterRest

\* Write: writer.mu.Lock(); writer.buffer.Write(p); writer.mu.Unlock()
WriteBuffer(t) ==
    /\ wt[t].op = "Write" /\ wt[t].pc = "lock"
    /\ mu = 0
    /\ buffer' = Append(buffer, wt[t].p)
    /\ wt' = [wt EXCEPT ![t].pc = "check"]
    /\ UNCHANGED <<mu, fileBytes, fileOpen, closeC, closeOnce, ticker, accepted, closeSeen>>
    /\ UNCHANGED WriterRest

\* Another goroutine is about to change the buffer while this one reads its
\* length without the lock.
RacesOnBuffer(t) ==
    \E u \in (Callers \cup {SchedId}) \ {t} :
        \/ wt[u].op = "Write" /\ wt[u].pc = "lock"
        \/ wt[u].pc = "fLock"

\* Write: if writer.buffer.Len() > WriterBufferLenLimit { writer.flushToFile() }
\* The length is read without the lock: with a writer of the buffer at work
\* the comparison can go either way.
WriteCheck(t) ==
    /\ wt[t].op = "Write" /\ wt[t].pc = "check"
    /\ \E over \in IF RacesOnBuffer(t) THEN BOOLEAN ELSE {Len(buffer) > WriterBufferLenLimit} :
          wt' = [wt EXCEPT ![t] = IF over THEN [@ EXCEPT !.pc = "fLock", !.after = "ret"]
                                   ELSE WtIdle]
    /\ UNCHANGED <<mu, buffer, fileBytes, fileOpen, closeC, closeOnce, ticker, accepted, closeSeen>>
    /\ UNCHANGED WriterRest

\* flushToFile under the lock: writer.mu.Lock(); nothing buffered: unlock and
\* return; else the bytes are copied, the buffer is reset, unlock.
FlushTake(t) ==
    /\ wt[t].pc = "fLock"
    /\ mu = 0
    /\ IF Len(buffer) = 0
          THEN /\ wt' = [wt EXCEPT ![t] = FlushReturn(@)]
               /\ buffer' = buffer
          ELSE /\ wt' = [wt EXCEPT ![t].pc = "fWrite", ![t].flushBytes = buffer]
               /\ buffer' = <<>>
    /\ UNCHANGED <<mu, fileBytes, fileOpen, closeC, closeOnce, ticker, accepted, closeSeen>>
    /\ UNCHANGED WriterRest

\* flushToFile after the lock: writer.file.Write(flushBytes); writer.file.Sync().
\* On a closed file the write fails, and the error is dropped.
FlushWrite(t) ==
    /\ wt[t].pc = "fWrite"
    /\ fileBytes' = IF fileOpen THEN fileBytes \o wt[t].flushBytes ELSE fileBytes
    /\ wt' = [wt EXCEPT ![t] = FlushReturn(@)]
    /\ UNCHANGED <<mu, buffer, fileOpen, closeC, closeOnce, ticker, accepted, closeSeen>>
    /\ UNCHANGED WriterRest

\* Close, a step of it: writer.mu.Lock(), held up to the deferred Unlock;
\* closeOnce.Do: the first call closes closeC, calls flushToFile, then
\* syncs and closes the file; the deferred Unlock and the return.
Close(t) ==
    /\ wt[t].op = "Close"
    /\ CASE wt[t].pc = "lock" ->
              /\ mu = 0
              /\ mu' = t
              /\ wt' = [wt EXCEPT ![t].pc = "once"]
              /\ UNCHANGED <<closeC, closeOnce, fileOpen, closeSeen>>
         [] wt[t].pc = "once" ->
              /\ IF closeOnce
                    THEN /\ wt' = [wt EXCEPT ![t].pc = "unlock"]
                         /\ UNCHANGED <<closeC, closeOnce>>
                    ELSE /\ closeOnce' = TRUE
                         /\ closeC' = TRUE
                         /\ wt' = [wt EXCEPT ![t].pc = "fLock", ![t].after = "cSync"]
              /\ UNCHANGED <<mu, fileOpen, closeSeen>>
         [] wt[t].pc = "cSync" ->
              /\ fileOpen' = FALSE
              /\ wt' = [wt EXCEPT ![t].pc = "unlock"]
              /\ UNCHANGED <<mu, closeC, closeOnce, closeSeen>>
         [] wt[t].pc = "unlock" ->
              /\ mu' = 0
              /\ wt' = [wt EXCEPT ![t] = WtIdle]
              /\ closeSeen' = IF closeSeen.n = 0 THEN [n |-> 1, bytes |-> accepted]
                              ELSE [closeSeen EXCEPT !.n = @ + 1]
              /\ UNCHANGED <<closeC, closeOnce, fileOpen>>
         [] OTHER -> FALSE
    /\ UNCHANGED <<buffer, fileBytes, ticker, accepted>>
    /\ UNCHANGED WriterRest

\* time.NewTicker(1 * time.Second): a tick every second, kept in ticker.C
\* until it is received.
TickerFire ==
    /\ ticker = "idle"
    /\ ticker' = "tick"
    /\ UNCHANGED <<mu, buffer, fileBytes, fileOpen, closeC, closeOnce, wt, accepted, closeSeen>>
    /\ UNCHANGED WriterRest

\* flushScheduler, its select: a tick calls flushToFile; the closed closeC
\* stops the ticker and the goroutine returns.
flushScheduler ==
    /\ wt[SchedId].pc = "select"
    /\ \/ /\ ticker = "tick"
          /\ ticker' = "idle"
          /\ wt' = [wt EXCEPT ![SchedId].pc = "fLock", ![SchedId].after = "select"]
       \/ /\ closeC
          /\ ticker' = "stopped"
          /\ wt' = [wt EXCEPT ![SchedId].pc = "stopped"]
    /\ UNCHANGED <<mu, buffer, fileBytes, fileOpen, closeC, closeOnce, accepted, closeSeen>>
    /\ UNCHANGED WriterRest

\* ------------------------------------------------------- specifications
\* The parts of the state a specification leaves alone.
QuietTrunc ==
    /\ minAppliedId = 0
    /\ lastTruncateId = 0
    /\ isCoord = FALSE
    /\ remoteApplied = [r \in 1..NRemote |-> 0]
    /\ truncTimer = "armed"
    /\ gm = GmIdle
    /\ truncates = <<>>

QuietRaft ==
    /\ raftPartition = 1
    /\ liveHandles = 1
    /\ raftC = <<>>
    /\ raftCap = 1

QuietRepair ==
    /\ repairC = <<>>
    /\ nRepairReq = 0
    /\ rp = RpIdle
    /\ extentStore = [e \in ExtentIds |-> "present"]

QuietStore ==
    /\ storeC = <<>>
    /\ storeCap = 1
    /\ storeTimer = "armed"
    /\ indexes = <<>>
    /\ isRunning = FALSE
    /\ readyChan = 0
    /\ sendVal = 0
    /\ dumps = [d \in DumpIds |-> FreeDump]

QuietFiles ==
    /\ files = [n \in {Temp, Canon} |-> 0]
    /\ inodes = [i \in InodeIds |-> NoInode]
    /\ persisted = Missing
    /\ crashed = FALSE
    /\ stored = <<Missing, Missing>>

QuietConf ==
    /\ peers = <<NodeId>>
    /\ engineApplied = 0
    /\ confRet = [op |-> "", peer |-> 0, index |-> 0, updated |-> FALSE, err |-> "nil"]
    /\ removers = <<>>
    /\ teardowns = <<>>
    /\ dirRemoved = FALSE

QuietStream ==
    /\ hosts = <<>>
    /\ hostMode = [h \in HostIds |-> "down"]
    /\ currAddr = 0
    /\ sd = SdIdle
    /\ conns = <<>>
    /\ sendLog = <<>>

\* NewAsyncFileWriter(out): an open file, an empty buffer, flushScheduler started.
NewAsyncFileWriter ==
    /\ mu = 0
    /\ buffer = <<>>
    /\ fileBytes = <<>>
    /\ fileOpen = TRUE
    /\ closeC = FALSE
    /\ closeOnce = FALSE
    /\ ticker = "idle"
    /\ wt = [t \in Callers \cup {SchedId} |->
                IF t = SchedId THEN [WtIdle EXCEPT !.op = "flushScheduler", !.pc = "select"]
                ELSE WtIdle]
    /\ accepted = 0
    /\ closeSeen = [n |-> 0, bytes |-> 0]

QuietExt ==
    /\ loadErr = "none"
    /\ QuietConf
    /\ QuietStream
    /\ NewAsyncFileWriter

\* Truncation. The state StartSchedule starts from: the applied index is the
\* one LoadApplyIndex restored, the other replicas are anywhere, the
\* consensus handle is attached or not yet.
InitTrunc ==
    /\ applyId \in Indexes
    /\ stopC = FALSE
    /\ loopPc = "top"
    /\ minAppliedId = 0
    /\ lastTruncateId = 0
    /\ isCoord \in BOOLEAN
    /\ remoteApplied \in [1..NRemote -> Indexes]
    /\ truncTimer = "armed"
    /\ gm = GmIdle
    /\ truncates = <<>>
    /\ raftPartition \in {Nil, 1}
    /\ liveHandles = raftPartition
    /\ raftC = <<>>
    /\ raftCap = 1
    /\ QuietRepair
    /\ QuietStore
    /\ QuietFiles
    /\ QuietExt

NextTrunc ==
    \/ Apply
    \/ \E r \in 1..NRemote : RemoteApply(r)
    \/ \E id \in Indexes : SetMinAppliedId(id)
    \/ SendStop
    \/ LoopTop
    \/ LoopStop
    \/ TruncTimerFire
    \/ LoopTruncTick
    \/ GetMinEnter
    \/ PollReplica
    \/ PollEnd
    \/ GetMinDefer
    \/ TruncCheck

SpecTrunc == InitTrunc /\ [][NextTrunc]_vars

\* Repair and the restart of consensus after it.
InitRepair ==
    /\ applyId = 0
    /\ stopC = FALSE
    /\ loopPc = "top"
    /\ QuietTrunc
    /\ raftPartition = 1
    /\ liveHandles = 1
    /\ raftC = <<>>
    /\ raftCap \in 1..MaxChanCap
    /\ QuietRepair
    /\ QuietStore
    /\ QuietFiles
    /\ QuietExt

LoopRepairStep ==
    \/ LoopTop
    \/ LoopStop
    \/ LoopRaftOp
    \/ LoopRepair
    \/ RepairStopRaft
    \/ RepairWatermark
    \/ RepairNotify
    \/ RepairDelete
    \/ RepairPull
    \/ LoopSendRaftC

NextRepair ==
    \/ \E e \in ExtentIds : RequestRepair(e)
    \/ SendStop
    \/ LoopRepairStep

SpecRepair == InitRepair /\ [][NextRepair]_vars

\* The goroutine of the loop is scheduled as long as it can take a step.
LiveRepair == SpecRepair /\ WF_vars(LoopRepairStep)

\* Persistence of the applied index.
InitStore ==
    /\ applyId = MaxIndex - 1
    /\ stopC = FALSE
    /\ loopPc = "top"
    /\ QuietTrunc
    /\ QuietRaft
    /\ QuietRepair
    /\ storeC = <<>>
    /\ storeCap \in 1..MaxChanCap
    /\ storeTimer = "armed"
    /\ indexes = <<>>
    /\ isRunning = FALSE
    /\ readyChan = 0
    /\ sendVal = 0
    /\ dumps = [d \in DumpIds |-> FreeDump]
    /\ QuietFiles
    /\ QuietExt

LoopStoreStep ==
    \/ LoopTop
    \/ LoopSendReady
    \/ LoopStop
    \/ LoopReady
    \/ LoopStore
    \/ LoopReportTick
    \/ LoopSendStoreC

NextStore ==
    \/ Apply
    \/ SendStop
    \/ StoreTimerFire
    \/ LoopStoreStep
    \/ \E d \in DumpIds : dumpFunc(d)

SpecStore == InitStore /\ [][NextStore]_vars

\* Every goroutine that can take a step is scheduled, and time passes.
LiveStore ==
    /\ SpecStore
    /\ WF_vars(LoopStoreStep)
    /\ WF_vars(StoreTimerFire)
    /\ \A d \in DumpIds : WF_vars(dumpFunc(d))

\* storeApplyIndex and a crash: one or two dumpFunc goroutines have been
\* started; the canonical file is missing or holds an earlier index.
StoreValues == Indexes \cup {BigIndex}

InitCrash ==
    /\ applyId = 0
    /\ stopC = FALSE
    /\ loopPc = "select"
    /\ QuietTrunc
    /\ QuietRaft
    /\ QuietRepair
    /\ storeC = <<>>
    /\ storeCap = 1
    /\ storeTimer = "armed"
    /\ indexes = <<>>
    /\ isRunning = TRUE
    /\ readyChan = 0
    /\ sendVal = 0
    /\ \E v \in StoreValues, w \in StoreValues \cup {-1} :
          dumps = [d \in DumpIds |->
                      IF d = 1 THEN [pc |-> "open", idx |-> v, fd |-> 0, err |-> FALSE]
                      ELSE IF d = 2 /\ w # -1
                              THEN [pc |-> "open", idx |-> w, fd |-> 0, err |-> FALSE]
                      ELSE FreeDump]
    /\ \E p \in StoreValues \cup {-1} :
          IF p = -1
             THEN /\ files = [n \in {Temp, Canon} |-> 0]
                  /\ inodes = [i \in InodeIds |-> NoInode]
                  /\ persisted = Missing
             ELSE /\ files = [n \in {Temp, Canon} |-> IF n = Canon THEN 1 ELSE 0]
                  /\ inodes = [i \in InodeIds |->
                                  IF i = 1 THEN [data |-> Digits(p), durable |-> Len(Digits(p))]
                                  ELSE NoInode]
                  /\ persisted = Digits(p)
    /\ crashed = FALSE
    /\ stored = <<persisted, persisted>>
    /\ QuietExt

NextCrash ==
    \/ \E d \in DumpIds : storeApplyIndex(d)
    \/ Crash

SpecCrash == InitCrash /\ [][NextCrash]_vars

\* The restart after the stores, or after a crash during them.
NextLoad ==
    \/ NextCrash
    \/ LoadApplyIndex

SpecLoad == InitCrash /\ [][NextLoad]_vars

\* The stream client: every host list up to NHosts hosts, every way the
\* hosts answer, every cached address (also the empty one, and one that is
\* not in the list).
HostLists == {[k \in 1..n |-> k] : n \in 1..NHosts}

InitStream ==
    /\ applyId = 0
    /\ stopC = FALSE
    /\ loopPc = "top"
    /\ QuietTrunc
    /\ QuietRaft
    /\ QuietRepair
    /\ QuietStore
    /\ QuietFiles
    /\ loadErr = "none"
    /\ QuietConf
    /\ NewAsyncFileWriter
    /\ hosts \in HostLists
    /\ hostMode \in [HostIds -> HostModes]
    /\ currAddr \in {0} \cup HostIds
    /\ sd = SdIdle
    /\ conns = <<>>
    /\ sendLog = <<>>

NextStream ==
    \/ SendCall
    \/ SendLoop
    \/ SendGetCurr
    \/ SendToConn
    \/ SendPut
    \/ SendHosts

SpecStream == InitStream /\ [][NextStream]_vars

\* Configuration changes: the local node is in the peer list or not, the
\* consensus handle is attached or not.
InitConf ==
    /\ applyId = 0
    /\ stopC = FALSE
    /\ loopPc = "top"
    /\ QuietTrunc
    /\ raftPartition \in {Nil, 1}
    /\ liveHandles = raftPartition
    /\ raftC = <<>>
    /\ raftCap = 1
    /\ QuietRepair
    /\ QuietStore
    /\ QuietFiles
    /\ loadErr = "none"
    /\ QuietStream
    /\ NewAsyncFileWriter
    /\ peers \in {<<NodeId, 2>>, <<2, NodeId, 3>>, <<2, 3>>}
    /\ engineApplied = 0
    /\ confRet = [op |-> "", peer |-> 0, index |-> 0, updated |-> FALSE, err |-> "nil"]
    /\ removers = <<>>
    /\ teardowns = <<>>
    /\ dirRemoved = FALSE

RemoverStep(g) ==
    \/ RemoverCheck(g)
    \/ RemoverDelete(g)
    \/ RemoverStop(g)
    \/ RemoverRemoveAll(g)

LoopConfStep ==
    \/ LoopTop
    \/ LoopStop

NextConf ==
    \/ \E p \in PeerIds : confAddNode(p)
    \/ \E p \in PeerIds : confRemoveNode(p)
    \/ EngineAdvance
    \/ \E g \in 1..MaxConfChanges : RemoverStep(g)
    \/ LoopConfStep

SpecConf == InitConf /\ [][NextConf]_vars

\* The loop and the self-removal goroutines are scheduled, and the engine
\* records what it applied.
LiveConf ==
    /\ SpecConf
    /\ WF_vars(LoopConfStep)
    /\ WF_vars(EngineAdvance)
    /\ \A g \in 1..MaxConfChanges : WF_vars(RemoverStep(g))

\* Truncation with the loop scheduled and time passing.
LoopTruncStep ==
    \/ LoopTop
    \/ LoopStop
    \/ LoopTruncTick
    \/ GetMinEnter
    \/ PollReplica
    \/ PollEnd
    \/ GetMinDefer
    \/ TruncCheck

LiveTrunc ==
    /\ SpecTrunc
    /\ WF_vars(LoopTruncStep)
    /\ WF_vars(TruncTimerFire)

\* Repair and the truncation tick on a replica that is not the coordinator.
NextTruncRepair ==
    \/ NextRepair
    \/ \E id \in Indexes : SetMinAppliedId(id)
    \/ TruncTimerFire
    \/ LoopTruncTick
    \/ GetMinEnter
    \/ TruncCheck

SpecTruncRepair == InitRepair /\ [][NextTruncRepair]_vars

\* A batch: two applied indexes are queued on storeC in non-decreasing order,
\* the higher one being dp.applyId, and the loop and the dumpFunc goroutines
\* it starts run, every storeApplyIndex step by step.
InitBatch ==
    /\ applyId \in Indexes
    /\ stopC = FALSE
    /\ loopPc = "top"
    /\ QuietTrunc
    /\ QuietRaft
    /\ QuietRepair
    /\ \E v \in Indexes :
          /\ v <= applyId
          /\ storeC = <<[idx |-> v, by |-> 0], [idx |-> applyId, by |-> 0]>>
    /\ storeCap = MaxChanCap
    /\ storeTimer = "armed"
    /\ indexes = <<>>
    /\ isRunning = FALSE
    /\ readyChan = 0
    /\ sendVal = 0
    /\ dumps = [d \in DumpIds |-> FreeDump]
    /\ QuietFiles
    /\ QuietExt

NextBatch ==
    \/ LoopTop
    \/ LoopSendReady
    \/ LoopReady
    \/ LoopStore
    \/ \E d \in DumpIds : storeApplyIndex(d)
    \/ \E d \in DumpIds : DumpAfterStore(d)
    \/ \E d \in DumpIds : DumpSent(d)
    \/ \E d \in DumpIds : DumpFinish(d)

SpecBatch == InitBatch /\ [][NextBatch]_vars

\* The writer, its callers and its flush scheduler.
InitWriter ==
    /\ applyId = 0
    /\ stopC = FALSE
    /\ loopPc = "top"
    /\ QuietTrunc
    /\ QuietRaft
    /\ QuietRepair
    /\ QuietStore
    /\ QuietFiles
    /\ QuietExt

\* A step of a goroutine inside a call of the writer.
WriterStep(t) ==
    \/ WriteBuffer(t)
    \/ WriteCheck(t)
    \/ FlushTake(t)
    \/ FlushWrite(t)
    \/ Close(t)

NextWriter ==
    \/ \E t \in Callers : CallWrite(t)
    \/ \E t \in Callers : CallFlush(t)
    \/ \E t \in Callers : CallClose(t)
    \/ \E t \in Callers : WriterStep(t)
    \/ FlushTake(SchedId)
    \/ FlushWrite(SchedId)
    \/ flushScheduler
    \/ TickerFire

SpecWriter == InitWriter /\ [][NextWriter]_vars

\* Every goroutine that can take a step is scheduled, and the ticker ticks.
LiveWriter ==
    /\ SpecWriter
    /\ \A t \in Callers : WF_vars(WriterStep(t))
    /\ WF_vars(FlushTake(SchedId) \/ FlushWrite(SchedId) \/ flushScheduler)
    /\ WF_vars(TickerFire)

\* ------------------------------------------------------------- claims
\* The truncation-tick handler has just issued a Truncate.
TruncateIssued == Len(truncates') = Len(truncates) + 1

\* C1: whenever the control loop issues Truncate(i), i is at most the applied
\* index of every replica of the partition at that moment, the local one and
\* every remote one (also one whose applied index is 0).
C1_TruncateWithinEveryApplied ==
    [][TruncateIssued =>
          /\ Last(truncates') <= applyId
          /\ \A r \in 1..NRemote : Last(truncates') <= remoteApplied[r]]_vars

\* C2: minAppliedId <= applyId in every state; every index the tick handler
\* passes to Truncate is at most minAppliedId at that moment, and
\* lastTruncateId <= minAppliedId right afterwards.
C2_MinWithinApplyAndTruncateWithinMin ==
    [][/\ minAppliedId' <= applyId'
       /\ TruncateIssued =>
             /\ Last(truncates') <= minAppliedId
             /\ lastTruncateId' <= minAppliedId']_vars

\* C3: when every RPC of a coordinator poll succeeds, minAppliedId afterwards
\* is the minimum of the local applyId and the applied indexes the replicas
\* returned; and when that minimum exceeds lastTruncateId, the same tick
\* issues Truncate with it.
C3_PollStoresClusterMinimum ==
    [][/\ (loopPc = "getMinDefer" /\ loopPc' = "truncCheck" /\ ~gm.err) =>
             minAppliedId' = SetMin(Range(gm.got))
       /\ (loopPc = "truncCheck" /\ loopPc' # "truncCheck" /\ gm.i > NRemote /\ ~gm.err
             /\ SetMin(Range(gm.got)) > lastTruncateId) =>
             (TruncateIssued /\ Last(truncates') = SetMin(Range(gm.got)))]_vars

\* C4: minAppliedId never decreases, whatever step is taken.
C4_MinAppliedIdNeverDecreases == [][minAppliedId' >= minAppliedId]_vars

\* ApplyErrRepair is about to call, or is between, the calls that change the
\* extent store (DeleteDirtyExtent, ExtentRepair).
RepairMutating == loopPc \in {"repairDelete", "repairPull"}

\* C5: the consensus handle is stopped and absent in every state in which
\* repair changes the extent store, and the partition never has more than
\* one live consensus handle.
C5_RepairExcludesConsensus ==
    /\ RepairMutating => (raftPartition = Nil /\ liveHandles = 0)
    /\ liveHandles <= 1
    /\ raftPartition # Nil => liveHandles = 1

\* The follower has deleted the dirty extent and is about to pull it, with
\* consensus detached.
C5_Witness ==
    /\ loopPc = "repairPull"
    /\ extentStore[rp.extentId] = "deleted"
    /\ raftPartition = Nil

\* C6: every repair request the loop takes is followed by a start request
\* the loop handles: once ApplyErrRepair has detached consensus, the handle
\* is attached again later (unless StartRaft fails, or the loop is stopped).
C6_RepairThenConsensusResumes ==
    (loopPc = "repairWatermark") ~>
        (raftPartition # Nil \/ loopPc \in {"exited", "panicked"})

\* This node is not the leader and knows the leader's address.
FollowerRepair == ~rp.isLeader /\ rp.leaderAddr # ""

\* The delete of the extent, then its pull from the leader.
DeleteThenPull ==
    << <<"delete", rp.extentId, "">>, <<"pull", rp.extentId, rp.leaderAddr>> >>

IsPrefix(s, t) == Len(s) <= Len(t) /\ s = SubSeq(t, 1, Len(s))

\* C7 as stated: every repair on a follower that knows the leader deletes the
\* extent and then pulls it from the leader, neither step skipped.
C7_EveryFollowerRepairDeletesThenPulls ==
    FollowerRepair =>
        /\ IsPrefix(rp.ops, DeleteThenPull)
        /\ loopPc = "sendRaftC" => rp.ops = DeleteThenPull

\* C7 amended: the same, for the repairs whose watermark lookup
\* (GetOneWatermark) succeeds; when it fails nothing is deleted or pulled.
C7_FollowerRepairDeletesThenPulls ==
    FollowerRepair =>
        /\ IsPrefix(rp.ops, DeleteThenPull)
        /\ loopPc = "sendRaftC" =>
              rp.ops = IF rp.err THEN <<>> ELSE DeleteThenPull

\* ApplyErrRepair has returned on a follower after the delete and the pull.
C7_Witness ==
    /\ loopPc = "sendRaftC"
    /\ FollowerRepair
    /\ rp.ops = DeleteThenPull
    /\ extentStore[rp.extentId] = "merged"

\* The loop is in a send that no receive will ever complete: it is the only
\* receiver of raftC, storeC and readyChan, and the buffer is full.
LoopBlockedOnSend ==
    \/ loopPc = "sendRaftC" /\ Len(raftC) >= raftCap
    \/ loopPc = "sendStoreC" /\ Len(storeC) >= storeCap
    \/ loopPc = "sendReady" /\ readyChan = 1

\* C8: the control loop never blocks inside an event handler: its own sends
\* on raftC, storeC (and readyChan) never leave it stuck.
C8_LoopNeverBlocks == ~LoopBlockedOnSend

\* C9: while the loop runs, an index whose storeApplyIndex call failed is
\* passed to storeApplyIndex again (a dumpFunc is started for it).
C9_FailedStoreIsRetried ==
    \A v \in Indexes :
        (\E d \in DumpIds : dumps[d].pc = "ret" /\ dumps[d].err /\ dumps[d].idx = v)
            ~> (\/ \E d \in DumpIds : dumps[d].pc = "open" /\ dumps[d].idx = v
                \/ loopPc = "exited")

\* C10: after a crash at any step of storeApplyIndex the canonical file
\* holds the complete value persisted before, or the complete value of a
\* store that was under way; never an empty or a partial one.
C10_CrashLeavesOldOrNew ==
    crashed =>
        ReadCanon \in {persisted} \cup
            {Digits(dumps[d].idx) : d \in {x \in DumpIds : dumps[x].pc = "dead"}}

\* One storeApplyIndex ran alone and returned nil, and the node did not crash.
StoredAlone ==
    /\ ~crashed
    /\ dumps[1].pc = "ret" /\ ~dumps[1].err
    /\ \A d \in DumpIds \ {1} : dumps[d].pc = "free"

\* C11: LoadApplyIndex after a successful storeApplyIndex(n) returns nil and
\* sets applyId = n; with the canonical file missing or empty it returns nil
\* and applyId stays 0.
C11_LoadRestoresPersisted ==
    (loadErr \notin {"none", "ReadFile"}) =>
        /\ StoredAlone => (loadErr = "nil" /\ applyId = dumps[1].idx)
        /\ ReadCanon \in {Missing, <<>>} => (loadErr = "nil" /\ applyId = 0)

\* The hosts of the list that accept a connection and complete the request.
OkHosts == {h \in Range(hosts) : hostMode[h] = "ok"}

\* The address reports NotLeaderError, or no connection to it can be obtained.
StepsAside(addr) == addr \notin HostIds \/ hostMode[addr] \in {"down", "notLeader"}

\* The Send that returned n-th began with a cached address that steps aside,
\* and some host of the list completes the request.
FailoverCase(n) == StepsAside(sendLog[n].curr0) /\ OkHosts # {}

\* The addresses the Send after the n-th has tried so far.
TriedAfter(n) == IF n < Len(sendLog) THEN sendLog[n + 1].tried ELSE sd.tried

\* The n-th Send returned nil, the cached address is the host on which the
\* request succeeded, and the next Send tries that host first.
FailoverDone(n) ==
    /\ sendLog[n].ret = "nil"
    /\ sendLog[n].currAfter \in OkHosts
    /\ sendLog[n].currAfter = sendLog[n].accepted
    /\ Len(TriedAfter(n)) > 0 => TriedAfter(n)[1] = sendLog[n].currAfter

\* C12 as stated: whenever the cached address steps aside and some host of the
\* list completes the request, Send returns nil, caches that host and the
\* next Send tries it first.
C12_FailoverReachesAnyGoodHost ==
    \A n \in 1..Len(sendLog) : FailoverCase(n) => FailoverDone(n)

\* Every host listed before the first one that completes the request refuses
\* the connection or reports NotLeaderError.
EarlierHostsStepAside ==
    \E k \in 1..Len(hosts) :
        /\ hostMode[hosts[k]] = "ok"
        /\ \A m \in 1..(k - 1) : StepsAside(hosts[m])

\* C12 amended: the same, when every host listed before the one that completes
\* the request refuses the connection or reports NotLeaderError.
C12_FailoverReachesFirstGoodHost ==
    \A n \in 1..Len(sendLog) :
        (FailoverCase(n) /\ EarlierHostsStepAside) => FailoverDone(n)

\* Two Sends: the first found the cached address not leading, succeeded on
\* another host, and the second tried that host first.
C12_Witness ==
    /\ Len(sendLog) = 2
    /\ sendLog[1].curr0 \in HostIds
    /\ hostMode[sendLog[1].curr0] = "notLeader"
    /\ EarlierHostsStepAside
    /\ sendLog[1].ret = "nil"
    /\ sendLog[1].currAfter # sendLog[1].curr0
    /\ sendLog[2].tried[1] = sendLog[1].currAfter

\* C13: when the delivery on the cached address fails with an error other
\* than NotLeaderError, Send makes no further delivery and returns an error
\* after that one attempt.
C13_OtherErrorFailsAtOnce ==
    \A n \in 1..Len(sendLog) :
        (/\ PoolGets(sendLog[n].curr0)
         /\ sendLog[n].deliveries[1].err = "other") =>
            (sendLog[n].ret = "err" /\ Len(sendLog[n].deliveries) = 1)

\* C14: when a Send has changed the cached address, the new address is a host
\* on which a delivery was made that did not end in NotLeaderError.
C14_CachedOnlyIfNotNotLeader ==
    \A n \in 1..Len(sendLog) :
        sendLog[n].currAfter # sendLog[n].curr0 =>
            \E k \in 1..Len(sendLog[n].deliveries) :
                /\ sendLog[n].deliveries[k].addr = sendLog[n].currAfter
                /\ sendLog[n].deliveries[k].err # "NotLeaderError"

\* C15: Send stays within its attempt ceilings, and returns nil only if on
\* some connection the request was written and the reply handler returned no
\* error without asking for a retry.
C15_NilOnlyAfterAcceptedReply ==
    /\ sd.i <= StreamSendMaxRetry /\ sd.j <= StreamSendMaxRetry
    /\ \A n \in 1..Len(sendLog) :
          /\ Len(sendLog[n].deliveries) <= StreamSendMaxRetry * (1 + Len(hosts))
          /\ sendLog[n].ret = "nil" => sendLog[n].accepted # 0

\* C16: every connection the pool handed out is put back exactly once before
\* Send returns, healthy if and only if the delivery on it returned no error.
C16_EveryConnectionPutBackOnce ==
    \A c \in 1..Len(conns) :
        /\ conns[c].puts <= 1
        /\ conns[c].puts = 0 => (sd.pc \in {"conn", "put"} /\ sd.conn = c)
        /\ conns[c].puts = 1 => (conns[c].broken <=> conns[c].err # "nil")

\* A Send has returned after a failed delivery and a good one: one connection
\* went back broken, one healthy.
C16_Witness ==
    /\ sd.pc = "idle"
    /\ Len(sendLog) > 0
    /\ \E c \in 1..Len(conns) : conns[c].puts = 1 /\ conns[c].broken
    /\ \E c \in 1..Len(conns) : conns[c].puts = 1 /\ ~conns[c].broken /\ conns[c].err = "nil"

\* confRemoveNode has just started a self-removal goroutine.
SelfRemovalStarted == Len(removers') = Len(removers) + 1

\* A step of a teardown (Delete, Stop, RemoveAll) has just been taken.
TeardownStep == Len(teardowns') = Len(teardowns) + 1

\* C17: confRemoveNode of the local node returns updated = false and no error
\* and leaves the peer list as it is; every step of the teardown is taken
\* with the engine's applied index at or past the index of the removal entry.
C17_SelfRemovalWaitsForAppliedIndex ==
    [][/\ SelfRemovalStarted =>
             (confRet'.updated = FALSE /\ confRet'.err = "nil" /\ peers' = peers)
       /\ TeardownStep => Last(teardowns').applied >= Last(teardowns').index]_vars

\* The self-removal ran to its end: consensus state deleted, partition
\* stopped, directory removed, the local node still in the peer list.
C17_Witness ==
    /\ dirRemoved
    /\ Len(teardowns) = 3
    /\ teardowns[1].step = "delete" /\ teardowns[3].step = "removeAll"
    /\ engineApplied >= teardowns[1].index
    /\ NodeId \in Range(peers)

\* C18: once a self-removal has been started, no later configuration change
\* alters the peer list or starts another teardown, and after the teardown
\* the control loop has exited.
C18_SelfRemovalIsTerminal ==
    /\ [][Len(removers) > 0 => (peers' = peers /\ Len(removers') = Len(removers))]_vars
    /\ dirRemoved ~> (loopPc = "exited")

\* C19: while the loop has not been stopped, every truncation tick it handles
\* is followed by another tick of the truncation timer.
C19_TruncationTimerIsPeriodic ==
    (loopPc = "getMin") ~> (truncTimer = "fired" \/ loopPc \in {"exited", "panicked"})

\* C20: once the loop has exited on the stop signal, every dumpFunc in flight
\* ends, whether its storeApplyIndex succeeded or failed.
C20_DumpsEndAfterStop ==
    (loopPc = "exited") ~> (\A d \in DumpIds : dumps[d].pc = "free")

\* C21: in every state in which the truncation-tick handler is about to issue
\* a truncate (minAppliedId > lastTruncateId), the consensus handle is
\* attached.
C21_TruncateOnlyOnAttachedHandle ==
    (loopPc = "truncCheck" /\ minAppliedId > lastTruncateId) => raftPartition # Nil

\* The applied index a reader gets from these bytes of the canonical file;
\* -1 when there is no file or no byte.
StoredValue(bytes) == IF bytes \in {Missing, <<>>} THEN -1 ELSE ScanDigits(bytes)

\* Everything queued has been handled and every dumpFunc has ended.
BatchDone ==
    /\ loopPc = "select"
    /\ storeC = <<>> /\ indexes = <<>> /\ readyChan = 0
    /\ \A d \in DumpIds : dumps[d].pc = "free"

\* C22: the value in the canonical file does not decrease from one successful
\* storeApplyIndex to the next, and once every task launched for the batch
\* has finished it is the highest index queued.
C22_PersistedIndexNeverGoesBack ==
    /\ StoredValue(stored[2]) >= StoredValue(stored[1])
    /\ BatchDone => ReadCanon = Digits(applyId)

\* C23: every Close call returns, and once the first Close has returned
\* every byte accepted by an earlier Write is in the file and the flush
\* scheduler has stopped.
C23_CloseTerminates ==
    /\ \A t \in Callers : (wt[t].op = "Close") ~> (wt[t].op = "")
    /\ [](closeSeen.n > 0 =>
             /\ \A b \in 1..closeSeen.bytes : b \in Range(fileBytes)
             /\ wt[SchedId].pc = "stopped")

====
